---- MODULE Spec2Model ----
(***************************************************************************)
(* Voice-type transformer: the record screen's stop flow                   *)
(* (app/index.tsx), the transcription / polish client                      *)
(* (lib/transcription.ts), the relay routes (server/routes.ts), the        *)
(* credential store (lib/api-keys.ts) and the history store                *)
(* (lib/history.ts).                                                       *)
(*                                                                         *)
(* Texts are sequences of one-character strings; messages are sequences    *)
(* of tokens (a fixed phrase is one token, an interpolated value keeps     *)
(* its own tokens).                                                        *)
(***************************************************************************)
EXTENDS Integers, Sequences, FiniteSets, TLC

\* ------------------------------------------------------------------------
\* Bounds of the model
\* ------------------------------------------------------------------------
MaxLen == 2
MaxInvocations == 1
MaxCalls == 2
MaxUriLen == 3

\* ------------------------------------------------------------------------
\* Program constants
\* ------------------------------------------------------------------------
TRANSCRIBE_TIMEOUT_MS == 60000
POLISH_TIMEOUT_MS == 30000

Providers == {"openai", "groq"}
Platforms == {"native", "web"}

\* One whitespace character and one letter.
Chars == {" ", "a"}
Texts == UNION {[1..n -> Chars] : n \in 0..MaxLen}

\* The keys a user may have stored; "" stands for null / no stored value.
NoKey == ""
\* The keys the user saves: a well-formed one for OpenAI, and for Groq one with
\* a line break inside it (settings.tsx trims only the ends of what was pasted).
KeysOf(p) == IF p = "openai" THEN {"sk-A"} ELSE {"sk\nB"}
Keys == KeysOf("openai") \cup KeysOf("groq")

\* ------------------------------------------------------------------------
\* String helpers
\* ------------------------------------------------------------------------
RECURSIVE TrimStart(_)
TrimStart(t) == IF t # <<>> /\ Head(t) = " " THEN TrimStart(Tail(t)) ELSE t

RECURSIVE TrimEnd(_)
TrimEnd(t) ==
  IF t # <<>> /\ t[Len(t)] = " " THEN TrimEnd(SubSeq(t, 1, Len(t) - 1)) ELSE t

NoTrim(t) == t

\* String.prototype.trim
Trim(t) == TrimEnd(TrimStart(t))

\* ------------------------------------------------------------------------
\* lib/transcription.ts: configuration helpers
\* ------------------------------------------------------------------------
BackendHost == "backend"

getBackendBaseUrl == BackendHost

getApiEndpoint(provider) ==
  IF provider = "groq" THEN "api.groq.com" ELSE "api.openai.com"

ProviderHosts == {getApiEndpoint(p) : p \in Providers}

getWhisperModel(provider) ==
  IF provider = "groq" THEN "whisper-large-v3-turbo" ELSE "whisper-1"

getChatModel(provider) ==
  IF provider = "groq" THEN "llama-3.3-70b-versatile" ELSE "gpt-4o-mini"

\* ------------------------------------------------------------------------
\* lib/transcription.ts: container extension and MIME type of the upload
\* ------------------------------------------------------------------------
\* An audio URI is a sequence of words, "." and "?"; it starts with its path.
UriWords == {"rec", ".", "?", "m4a", "mp4", "webm", "caf", "wav"}
Uris == {<<"rec">> \o u : u \in UNION {[1..n -> UriWords] : n \in 0..MaxUriLen}}

\* audioUri.split(".").pop(): what follows the last ".", the whole string
\* when there is none.
RECURSIVE SplitDotPop(_)
SplitDotPop(u) ==
  IF u = <<>> \/ u[Len(u)] = "." THEN <<>>
  ELSE SplitDotPop(SubSeq(u, 1, Len(u) - 1)) \o <<u[Len(u)]>>

\* .split("?")[0]: what precedes the first "?".
RECURSIVE SplitQueryFirst(_)
SplitQueryFirst(u) ==
  IF u = <<>> \/ Head(u) = "?" THEN <<>>
  ELSE <<Head(u)>> \o SplitQueryFirst(Tail(u))

\* audioUri.split(".").pop()?.split("?")[0] || "m4a"
fileExtension(audioUri) ==
  LET e == SplitQueryFirst(SplitDotPop(audioUri))
  IN  IF e = <<>> THEN <<"m4a">> ELSE e

\* A table that types caf as audio/caf.
mimeTypePlainCaf(ext) ==
  IF ext = <<"webm">> THEN "audio/webm"
  ELSE IF ext = <<"mp4">> THEN "audio/mp4"
  ELSE IF ext = <<"caf">> THEN "audio/caf"
  ELSE "audio/m4a"

mimeType(ext) ==
  IF ext = <<"webm">> THEN "audio/webm"
  ELSE IF ext = <<"mp4">> THEN "audio/mp4"
  ELSE IF ext = <<"caf">> THEN "audio/x-caf"
  ELSE "audio/m4a"

\* ------------------------------------------------------------------------
\* lib/api-keys.ts
\* ------------------------------------------------------------------------
\* getActiveApiKey: <<>> is null, otherwise <<[key, provider]>>.
getActiveApiKey(st) ==
  LET key == IF st.provider = "openai" THEN st.openai ELSE st.groq
  IN  IF key = NoKey THEN <<>> ELSE <<[key |-> key, provider |-> st.provider]>>

\* ------------------------------------------------------------------------
\* Messages (sequences of tokens)
\* ------------------------------------------------------------------------
MsgInvalidKey == <<"Invalid API key. Please check your key in Settings.">>
MsgRateLimit == <<"Rate limit exceeded. Please wait a moment and try again.">>
MsgTooLong == <<"Recording is too long. Try a shorter recording.">>
MsgAudioFormat == <<"Audio format not supported. Please try recording again.">>
MsgNoSpeech == <<"No speech detected. Please speak clearly and try again.">>
MsgTooShort == <<"Recording was too short or empty. Please try again.">>
MsgTimedOut ==
  <<"Transcription", " timed out.",
    " Check your internet connection and try again.">>
MsgSomethingWrong == <<"Something went wrong.">>

\* The texts an upstream error may carry; "Audio" lower-cases to "audio".
ErrTexts == {<<>>, <<"a">>, <<"Audio">>}

LowerOf(c) == IF c \in {"Audio", "AUDIO"} THEN "audio" ELSE c

\* String.prototype.toLowerCase
ToLowerCase(t) == [i \in 1..Len(t) |-> LowerOf(t[i])]

\* String.prototype.includes
Includes(t, tok) == \E i \in 1..Len(t) : t[i] = tok

\* A classifier that looks at the body before the status.
parseErrorMessageBodyFirst(status, errorText) ==
  IF Includes(ToLowerCase(errorText), "audio") THEN MsgAudioFormat
  ELSE IF status = 401 THEN MsgInvalidKey
  ELSE IF status = 429 THEN MsgRateLimit
  ELSE IF status = 413 THEN MsgTooLong
  ELSE IF status = 400 THEN errorText
  ELSE <<"Transcription failed (", ToString(status), "): ">> \o errorText

\* A classifier that compares the body without lower-casing it.
parseErrorMessageCaseSensitive(status, errorText) ==
  IF status = 401 THEN MsgInvalidKey
  ELSE IF status = 429 THEN MsgRateLimit
  ELSE IF status = 413 THEN MsgTooLong
  ELSE IF status = 400 THEN
    IF Includes(errorText, "audio") THEN MsgAudioFormat
    ELSE errorText
  ELSE <<"Transcription failed (", ToString(status), "): ">> \o errorText

parseErrorMessage(status, errorText) ==
  IF status = 401 THEN MsgInvalidKey
  ELSE IF status = 429 THEN MsgRateLimit
  ELSE IF status = 413 THEN MsgTooLong
  ELSE IF status = 400 THEN
    IF Includes(ToLowerCase(errorText), "audio") THEN MsgAudioFormat
    ELSE errorText
  ELSE <<"Transcription failed (", ToString(status), "): ">> \o errorText

\* Error values: name and message.
Err(name, message) == [name |-> name, message |-> message]
NoError == Err("", <<>>)

\* ------------------------------------------------------------------------
\* Upstream response bodies
\* ------------------------------------------------------------------------
\* A failed upstream response: plain text, JSON with error.message, other JSON.
PlainErr(t) == [json |-> FALSE, raw |-> t, message |-> <<>>]
JsonErr(m) ==
  [json |-> TRUE, raw |-> <<"{error:{message:">> \o m \o <<"}}">>, message |-> m]
JsonOther == [json |-> TRUE, raw |-> <<"{}">>, message |-> <<>>]
ErrBodies ==
  {PlainErr(t) : t \in ErrTexts} \cup {JsonErr(m) : m \in ErrTexts \ {<<>>}}
    \cup {JsonOther}

\* The arguments a test hands to parseErrorMessage: every status the
\* classifier distinguishes and two it does not, and texts of up to MaxLen
\* words with "audio" in three letter cases.
ClassifyStatuses == {400, 401, 403, 413, 429, 500}
ErrWords == {"a", "audio", "Audio", "AUDIO"}
ClassifyTexts == UNION {[1..n -> ErrWords] : n \in 0..MaxLen}

\* The HTTP statuses an upstream answers with.
FailStatuses == {400, 401, 500}
Statuses == {200} \cup FailStatuses

ResponseOk(status) == status >= 200 /\ status <= 299

\* ------------------------------------------------------------------------
\* State
\* ------------------------------------------------------------------------
VARIABLES
  platform,      \* Platform.OS
  store,         \* SecureStore / AsyncStorage: provider, openai key, groq key
  isRecording,   \* useState
  isProcessing,  \* useState
  rawText,       \* useState
  polishedText,  \* useState
  recordingRef,  \* useRef: 0 is null, otherwise the recording's number
  startPc,       \* position of the startRecording handler
  stopPc,        \* position of the stopRecording handler
  stopLocals,    \* stopRecording's locals: duration, uri, keyData, raw, polished
  alert,         \* the Alert.alert on screen
  consoleLog,    \* what the client wrote with console.error since the last stop tap
  clipboard,     \* Clipboard contents
  history,       \* AsyncStorage voicetype_history
  lib,           \* the transcribeAudio / polishTranscript call in progress
  timers,        \* the setTimeout handles created by lib/transcription.ts
  requests,      \* the network requests issued since the last stop tap, in order
  relay,         \* the relay's handler for the request it is serving
  relayLog,      \* what the relay wrote with console.error since the last stop tap
  invocations,   \* number of recordings stopped: the invocations of the flow
  flow,          \* orchestration state of the current invocation
  harness        \* a direct caller of the library: its calls and their results

vars ==
  <<platform, store, isRecording, isProcessing, rawText, polishedText,
    recordingRef, startPc, stopPc, stopLocals, alert, consoleLog, clipboard,
    history, lib, timers, requests, relay, relayLog, invocations, flow,
    harness>>

uiVars == <<isRecording, isProcessing, rawText, polishedText, recordingRef>>
netVars == <<lib, timers, requests, relay, relayLog>>
sideVars == <<clipboard, history, harness>>

NoAlert == [title |-> "", message |-> <<>>]
\* polishEnv records what happened to the polish request of the invocation.
\* rec is the recording whose stopAndUnloadAsync the handler called.
NoLocals ==
  [duration |-> "ok", uri |-> <<>>, keyData |-> <<>>, raw |-> <<>>,
   polished |-> <<>>, polishEnv |-> "", rec |-> 0]

\* env records what happened to the request ("ok", "status", "network",
\* "timeout", "malformed", "payload"); body is the body that was read from
\* the response: for a transcription the text of a successful one or the
\* error body of a failed one, for a polish the content (native) or text
\* (web) field of a successful one (<<>> when none was read).
IdleLib ==
  [op |-> "none", pc |-> "idle", platform |-> "", audio |-> <<>>,
   text |-> <<>>, apiKey |-> NoKey, provider |-> "", timer |-> 0,
   aborted |-> FALSE, status |-> 0, env |-> "", body |-> <<>>,
   result |-> "none", value |-> <<>>, error |-> NoError]

\* hist holds the calls of lib/history.ts made so far: the operation, its
\* argument (the id of the entry saved or deleted), its position (before the
\* read, before the write, done or failed) and the list it read.
NoHarness ==
  [calls |-> 0, op |-> "none", text |-> <<>>, env |-> "", body |-> <<>>,
   result |-> "none", value |-> <<>>, error |-> NoError, status |-> 0,
   ext |-> <<>>, mime |-> "", hist |-> <<>>]

\* up records what the upstream answered to the route's request: <<>> when
\* it did not answer, otherwise its status and body.
IdleRelay ==
  [pc |-> "idle", route |-> "", apiKey |-> NoKey, provider |-> "",
   text |-> <<>>, hasAudio |-> FALSE, up |-> <<>>,
   resp |-> [status |-> 0, json |-> FALSE, text |-> <<>>, error |-> <<>>]]

\* What reading the audio at a URI yields: unreadable, or readable with an
\* empty body, a base64 body shorter than 100 characters, or a longer one.
AudioFiles == [readable : BOOLEAN, size : {"empty", "short", "long"}]

Init ==
  /\ platform \in Platforms
  /\ store = [provider |-> "openai", openai |-> NoKey, groq |-> NoKey]
  /\ isRecording = FALSE
  /\ isProcessing = FALSE
  /\ rawText = <<>>
  /\ polishedText = <<>>
  /\ recordingRef = 0
  /\ startPc = "idle"
  /\ stopPc = "idle"
  /\ stopLocals = NoLocals
  /\ alert = NoAlert
  /\ consoleLog = {}
  /\ clipboard = <<>>
  /\ history = <<>>
  /\ lib = IdleLib
  /\ timers = <<>>
  /\ requests = <<>>
  /\ relay = IdleRelay
  /\ relayLog = {}
  /\ invocations = 0
  /\ flow = "Idle"
  /\ harness = NoHarness

\* ------------------------------------------------------------------------
\* Promise settlement and timers of a library call
\* ------------------------------------------------------------------------
Resolve(l, v) == [l EXCEPT !.pc = "settled", !.result = "resolved", !.value = v]
Reject(l, e) == [l EXCEPT !.pc = "settled", !.result = "rejected", !.error = e]
Env(l, e) == [l EXCEPT !.env = e]

NewTimer(op, ms) == [op |-> op, ms |-> ms, state |-> "pending", inv |-> invocations]

clearTimeout(ts, i) ==
  IF i \in 1..Len(ts) /\ ts[i].state = "pending"
  THEN [ts EXCEPT ![i].state = "cleared"]
  ELSE ts

Request(op, from, to, path, apiKey) ==
  [op |-> op, from |-> from, to |-> to, path |-> path, apiKey |-> apiKey,
   inv |-> invocations]

\* ------------------------------------------------------------------------
\* app/settings.tsx: the user edits the stored credentials
\* ------------------------------------------------------------------------
\* The settings screen is opened from the record screen while neither
\* handler is suspended at an await.
\* handleSaveOpenAI / handleSaveGroq: a non-blank input is saved, a blank one
\* deletes the stored key.
handleSaveKey(p, k) ==
  /\ startPc = "idle" /\ stopPc = "idle"
  /\ (IF p = "openai" THEN store.openai ELSE store.groq) # k
  /\ store' = IF p = "openai" THEN [store EXCEPT !.openai = k]
              ELSE [store EXCEPT !.groq = k]
  /\ UNCHANGED <<platform, uiVars, startPc, stopPc, stopLocals, alert,
                 consoleLog, sideVars, netVars, invocations, flow>>

handleProviderChange(p) ==
  /\ startPc = "idle" /\ stopPc = "idle"
  /\ store.provider # p
  /\ store' = [store EXCEPT !.provider = p]
  /\ UNCHANGED <<platform, uiVars, startPc, stopPc, stopLocals, alert,
                 consoleLog, sideVars, netVars, invocations, flow>>

\* ------------------------------------------------------------------------
\* app/index.tsx: startRecording
\* ------------------------------------------------------------------------
\* handleRecord with isRecording false; the button is disabled while
\* isProcessing.  The user has dismissed the alert that was on screen.
StartTap ==
  /\ ~isProcessing
  /\ ~isRecording
  /\ startPc = "idle"
  /\ startPc' = "getKey"
  /\ alert' = NoAlert
  /\ UNCHANGED <<platform, store, uiVars, stopPc, stopLocals, consoleLog,
                 sideVars, netVars, invocations, flow>>

\* const keyData = await getActiveApiKey(); if (!keyData) { Alert; return }
StartGetKey ==
  /\ startPc = "getKey"
  /\ IF getActiveApiKey(store) = <<>>
     THEN /\ alert' = [title |-> "API Key Required",
                       message |-> <<"Please add your OpenAI or Groq API key in Settings to start transcribing.">>]
          /\ startPc' = "idle"
     ELSE /\ startPc' = "create"
          /\ UNCHANGED alert
  /\ UNCHANGED <<platform, store, uiVars, stopPc, stopLocals, consoleLog,
                 sideVars, netVars, invocations, flow>>

\* Permission request, audio mode and Audio.Recording.createAsync.
StartCreate ==
  /\ startPc = "create"
  /\ startPc' = "idle"
  /\ \E outcome \in {"denied", "throw", "ok"} :
       CASE outcome = "denied" ->
              /\ alert' = [title |-> "Microphone Access",
                           message |-> <<"Microphone permission is needed to record audio.">>]
              /\ UNCHANGED <<uiVars, consoleLog>>
         [] outcome = "throw" ->
              /\ consoleLog' = consoleLog \cup
                   {[tag |-> "Failed to start recording:",
                     err |-> Err("Error", <<"recorder failure">>)]}
              /\ alert' = [title |-> "Error",
                           message |-> <<"Failed to start recording. Please try again.">>]
              /\ UNCHANGED uiVars
         [] outcome = "ok" ->
              /\ recordingRef' = invocations + 1
              /\ isRecording' = TRUE
              /\ rawText' = <<>>
              /\ polishedText' = <<>>
              /\ UNCHANGED <<isProcessing, alert, consoleLog>>
  /\ UNCHANGED <<platform, store, stopPc, stopLocals, sideVars, netVars,
                 invocations, flow>>

\* ------------------------------------------------------------------------
\* lib/transcription.ts: entry points (the part that runs before the first
\* await, in the caller's step)
\* ------------------------------------------------------------------------
\* A transcribeAudio that takes the direct path whatever the platform.
transcribeAudioAlwaysNative(audioUri, apiKey, provider) ==
  [IdleLib EXCEPT !.op = "transcribe", !.pc = "readFile",
                  !.platform = platform, !.audio = audioUri,
                  !.apiKey = apiKey, !.provider = provider]

\* transcribeAudio: web goes to transcribeWeb, everything else to
\* transcribeNative; both start by reading the recorded audio.
transcribeAudio(audioUri, apiKey, provider) ==
  [IdleLib EXCEPT !.op = "transcribe",
                  !.pc = IF platform = "web" THEN "readBlob" ELSE "readFile",
                  !.platform = platform, !.audio = audioUri,
                  !.apiKey = apiKey, !.provider = provider]

\* polishTranscript: polishNative arms its timer and issues the request at
\* once; polishWeb posts to the relay without a timer.
polishTranscript(text, apiKey, provider) ==
  /\ lib' = [IdleLib EXCEPT !.op = "polish", !.pc = "fetch",
                            !.platform = platform, !.text = text,
                            !.apiKey = apiKey, !.provider = provider,
                            !.timer = IF platform = "web" THEN 0
                                      ELSE Len(timers) + 1]
  /\ IF platform = "web"
     THEN /\ requests' = Append(requests,
               Request("polish", "client", getBackendBaseUrl, "/api/polish", apiKey))
          /\ relay' = [IdleRelay EXCEPT !.pc = "received", !.route = "/api/polish",
                                        !.apiKey = apiKey, !.provider = provider,
                                        !.text = text]
          /\ UNCHANGED timers
     ELSE /\ timers' = Append(timers, NewTimer("polish", POLISH_TIMEOUT_MS))
          /\ requests' = Append(requests,
               Request("polish", "client", getApiEndpoint(provider),
                       "/chat/completions", apiKey))
          /\ UNCHANGED relay

\* ------------------------------------------------------------------------
\* lib/history.ts
\* ------------------------------------------------------------------------
HISTORY_LIMIT == 100

\* A saveToHistory that never drops an entry.
saveToHistoryKeepsAll(h, entry) == <<entry>> \o h

\* history.unshift(entry); if (history.length > 100) history.pop();
saveToHistory(h, entry) ==
  LET u == <<entry>> \o h
  IN  IF Len(u) > HISTORY_LIMIT THEN SubSeq(u, 1, Len(u) - 1) ELSE u

\* history.filter((e) => e.id !== id)
deleteFromHistory(h, id) == SelectSeq(h, LAMBDA e : e.id # id)

\* AsyncStorage.removeItem(HISTORY_KEY): getHistory then returns [].
clearHistory == <<>>

\* ------------------------------------------------------------------------
\* app/index.tsx: stopRecording
\* ------------------------------------------------------------------------
\* A catch block that shows a fixed message instead of the error's own.
CatchGeneric(err) ==
  /\ isProcessing' = FALSE
  /\ consoleLog' = consoleLog \cup {[tag |-> "Processing error:", err |-> err]}
  /\ alert' = [title |-> "Error", message |-> MsgSomethingWrong]

\* The catch block of stopRecording.
Catch(err) ==
  /\ isProcessing' = FALSE
  /\ consoleLog' = consoleLog \cup {[tag |-> "Processing error:", err |-> err]}
  /\ alert' = [title |-> "Error",
               message |-> IF err.message # <<>> THEN err.message
                           ELSE MsgSomethingWrong]

\* handleRecord with isRecording true: stopRecording up to its first await.
\* With recordingRef null the handler returns without doing anything.
\* The observation of this invocation starts here: the alert on screen has
\* been dismissed, the logs and the request trace start empty, and timer
\* handles that are no longer pending are forgotten.
StopTap ==
  /\ ~isProcessing
  /\ isRecording
  /\ stopPc = "idle"
  /\ recordingRef # 0
  /\ invocations < MaxInvocations
  /\ invocations' = invocations + 1
  /\ isRecording' = FALSE
  /\ \E d \in {"short", "ok"} :
       stopLocals' = [NoLocals EXCEPT !.duration = d, !.rec = recordingRef]
  /\ stopPc' = "unload"
  /\ flow' = "Idle"
  /\ alert' = NoAlert
  /\ consoleLog' = {}
  /\ relayLog' = {}
  /\ requests' = <<>>
  /\ timers' = SelectSeq(timers, LAMBDA t : t.state = "pending")
  /\ UNCHANGED <<platform, store, isProcessing, rawText, polishedText,
                 recordingRef, startPc, sideVars, lib, relay>>

\* stopAndUnloadAsync, setAudioModeAsync, getURI, and the two early returns.
StopUnload ==
  /\ stopPc = "unload"
  /\ \E outcome \in {"throw", "nouri", "ok"} :
       CASE outcome = "throw" ->
              /\ Catch(Err("Error", <<"recorder failure">>))
              /\ stopPc' = "idle"
              /\ stopLocals' = NoLocals
              /\ UNCHANGED <<recordingRef, flow>>
         [] outcome = "nouri" ->
              /\ recordingRef' = 0
              /\ alert' = [title |-> "Error", message |-> <<"No recording found.">>]
              /\ stopPc' = "idle"
              /\ stopLocals' = NoLocals
              /\ UNCHANGED <<isProcessing, consoleLog, flow>>
         [] outcome = "ok" ->
              /\ recordingRef' = 0
              /\ IF stopLocals.duration = "short"
                 THEN /\ alert' = [title |-> "Too Short",
                                   message |-> <<"Recording was too short. Please try again.">>]
                      /\ stopPc' = "idle"
                      /\ stopLocals' = NoLocals
                      /\ UNCHANGED flow
                 ELSE /\ \E audio \in AudioFiles :
                           stopLocals' = [stopLocals EXCEPT !.uri = <<audio>>]
                      /\ stopPc' = "getKey"
                      /\ flow' = "AcquiringCredential"
                      /\ UNCHANGED alert
              /\ UNCHANGED <<isProcessing, consoleLog>>
  /\ UNCHANGED <<platform, store, isRecording, rawText, polishedText, startPc,
                 sideVars, netVars, invocations>>

\* const keyData = await getActiveApiKey(); if (!keyData) return;
\* setIsProcessing(true); transcribeAudio(uri, keyData.key, keyData.provider)
StopGetKey ==
  /\ stopPc = "getKey"
  /\ \E outcome \in {"throw", "ok"} :
       IF outcome = "throw"
       THEN /\ Catch(Err("Error", <<"storage failure">>))
            /\ stopPc' = "idle"
            /\ flow' = "Failed"
            /\ stopLocals' = NoLocals
            /\ UNCHANGED lib
       ELSE LET keyData == getActiveApiKey(store)
            IN  IF keyData = <<>>
                THEN /\ stopPc' = "idle"
                     /\ flow' = "Idle"
                     /\ stopLocals' = NoLocals
                     /\ UNCHANGED <<isProcessing, consoleLog, alert, lib>>
                ELSE /\ isProcessing' = TRUE
                     /\ stopLocals' = [stopLocals EXCEPT !.keyData = keyData]
                     /\ lib' = transcribeAudio(stopLocals.uri, keyData[1].key,
                                               keyData[1].provider)
                     /\ stopPc' = "transcribe"
                     /\ flow' = "Transcribing"
                     /\ UNCHANGED <<consoleLog, alert>>
  /\ UNCHANGED <<platform, store, isRecording, rawText, polishedText,
                 recordingRef, startPc, sideVars, timers, requests, relay,
                 relayLog, invocations>>

\* const raw = await transcribeAudio(...); setRawText(raw);
\* polishTranscript(raw, keyData.key, keyData.provider)
StopAfterTranscribe ==
  /\ stopPc = "transcribe"
  /\ lib.op = "transcribe"
  /\ lib.pc = "settled"
  /\ IF lib.result = "resolved"
     THEN /\ rawText' = lib.value
          /\ stopLocals' = [stopLocals EXCEPT !.raw = lib.value]
          /\ polishTranscript(lib.value, stopLocals.keyData[1].key,
                              stopLocals.keyData[1].provider)
          /\ stopPc' = "polish"
          /\ flow' = "Polishing"
          /\ UNCHANGED <<isProcessing, consoleLog, alert>>
     ELSE /\ Catch(lib.error)
          /\ lib' = IdleLib
          /\ stopPc' = "idle"
          /\ flow' = "Failed"
          /\ stopLocals' = NoLocals
          /\ UNCHANGED <<rawText, timers, requests, relay>>
  /\ UNCHANGED <<platform, store, isRecording, polishedText, recordingRef,
                 startPc, sideVars, relayLog, invocations>>

\* const polished = await polishTranscript(...); setPolishedText(polished);
\* setIsProcessing(false)
StopAfterPolish ==
  /\ stopPc = "polish"
  /\ lib.op = "polish"
  /\ lib.pc = "settled"
  /\ lib' = IdleLib
  /\ IF lib.result = "resolved"
     THEN /\ polishedText' = lib.value
          /\ stopLocals' = [stopLocals EXCEPT !.polished = lib.value,
                                              !.polishEnv = lib.env]
          /\ isProcessing' = FALSE
          /\ stopPc' = "clipboard"
          /\ flow' = "Complete"
          /\ UNCHANGED <<consoleLog, alert>>
     ELSE /\ Catch(lib.error)
          /\ stopPc' = "idle"
          /\ flow' = "Failed"
          /\ stopLocals' = NoLocals
          /\ UNCHANGED polishedText
  /\ UNCHANGED <<platform, store, isRecording, rawText, recordingRef, startPc,
                 sideVars, timers, requests, relay, relayLog, invocations>>

\* A stopRecording that copies the raw transcription to the clipboard.
StopClipboardCopiesRaw ==
  /\ stopPc = "clipboard"
  /\ \E outcome \in {"throw", "ok"} :
       IF outcome = "throw"
       THEN /\ Catch(Err("Error", <<"clipboard failure">>))
            /\ stopPc' = "idle"
            /\ stopLocals' = NoLocals
            /\ UNCHANGED clipboard
       ELSE /\ clipboard' = stopLocals.raw
            /\ stopPc' = "save"
            /\ UNCHANGED <<isProcessing, consoleLog, alert, stopLocals>>
  /\ UNCHANGED <<platform, store, isRecording, rawText, polishedText,
                 recordingRef, startPc, history, netVars, invocations, flow,
                 harness>>

\* await Clipboard.setStringAsync(polished)
StopClipboard ==
  /\ stopPc = "clipboard"
  /\ \E outcome \in {"throw", "ok"} :
       IF outcome = "throw"
       THEN /\ Catch(Err("Error", <<"clipboard failure">>))
            /\ stopPc' = "idle"
            /\ stopLocals' = NoLocals
            /\ UNCHANGED clipboard
       ELSE /\ clipboard' = stopLocals.polished
            /\ stopPc' = "save"
            /\ UNCHANGED <<isProcessing, consoleLog, alert, stopLocals>>
  /\ UNCHANGED <<platform, store, isRecording, rawText, polishedText,
                 recordingRef, startPc, history, netVars, invocations, flow,
                 harness>>

\* await saveToHistory({rawText: raw, polishedText: polished, provider, ...})
StopSave ==
  /\ stopPc = "save"
  /\ stopPc' = "idle"
  /\ stopLocals' = NoLocals
  /\ \E outcome \in {"throw", "ok"} :
       IF outcome = "throw"
       THEN /\ Catch(Err("Error", <<"storage failure">>))
            /\ UNCHANGED history
       ELSE /\ history' = saveToHistory(history,
                 [id |-> invocations, rawText |-> stopLocals.raw,
                  polishedText |-> stopLocals.polished,
                  provider |-> stopLocals.keyData[1].provider])
            /\ UNCHANGED <<isProcessing, consoleLog, alert>>
  /\ UNCHANGED <<platform, store, isRecording, rawText, polishedText,
                 recordingRef, startPc, clipboard, netVars, invocations, flow,
                 harness>>

\* ------------------------------------------------------------------------
\* lib/transcription.ts: transcribeNative
\* ------------------------------------------------------------------------
ApiError(status) == <<"API error (", ToString(status), ")">>

\* errText = await response.text().catch(() => ""); errMsg from the parsed
\* JSON error.message, else the raw text, else "API error (<status>)".
NativeErrMsg(status, readOk, body) ==
  LET errText == IF readOk THEN body.raw ELSE <<>>
  IN  IF readOk /\ body.json
      THEN IF body.message # <<>> THEN body.message ELSE ApiError(status)
      ELSE IF errText # <<>> THEN errText ELSE ApiError(status)

NetworkError == Err("TypeError", <<"Network request failed">>)

\* readAsStringAsync, the length check, the multipart body, the timer and the
\* request.
TranscribeNativeRead ==
  /\ lib.op = "transcribe"
  /\ lib.pc = "readFile"
  /\ LET audio == lib.audio[1]
     IN  IF ~audio.readable
         THEN /\ lib' = Reject(Env(lib, "payload"), Err("Error",
                          <<"Could not read audio file: ", "fs failure">>))
              /\ UNCHANGED <<timers, requests>>
         ELSE IF audio.size # "long"
         THEN /\ lib' = Reject(Env(lib, "payload"), Err("Error", MsgTooShort))
              /\ UNCHANGED <<timers, requests>>
         ELSE /\ timers' = Append(timers,
                             NewTimer("transcribe", TRANSCRIBE_TIMEOUT_MS))
              /\ requests' = Append(requests,
                   Request("transcribe", "client", getApiEndpoint(lib.provider),
                           "/audio/transcriptions", lib.apiKey))
              /\ lib' = [lib EXCEPT !.pc = "fetch", !.timer = Len(timers) + 1]
  /\ UNCHANGED <<platform, store, uiVars, startPc, stopPc, stopLocals, alert,
                 consoleLog, sideVars, relay, relayLog, invocations, flow>>

\* expoFetch resolves with the response headers; clearTimeout(timeout).
TranscribeNativeResponse ==
  /\ lib.op = "transcribe"
  /\ lib.platform = "native"
  /\ lib.pc = "fetch"
  /\ ~lib.aborted
  /\ \E status \in Statuses :
       lib' = [lib EXCEPT !.pc = "body", !.status = status,
                          !.env = IF ResponseOk(status) THEN "ok" ELSE "status"]
  /\ timers' = clearTimeout(timers, lib.timer)
  /\ UNCHANGED <<platform, store, uiVars, startPc, stopPc, stopLocals, alert,
                 consoleLog, sideVars, requests, relay, relayLog, invocations,
                 flow>>

\* The body is read: a failed status is classified, a successful text is
\* trimmed and must not be empty.  Errors pass through the catch block.
TranscribeNativeBody ==
  /\ lib.op = "transcribe"
  /\ lib.platform = "native"
  /\ lib.pc = "body"
  /\ IF ~ResponseOk(lib.status)
     THEN \E readOk \in BOOLEAN, body \in ErrBodies :
            lib' = Reject([lib EXCEPT !.body = IF readOk THEN <<body>> ELSE <<>>],
                          Err("Error",
                              parseErrorMessage(lib.status,
                                NativeErrMsg(lib.status, readOk, body))))
     ELSE \/ lib' = Reject(Env(lib, "network"), NetworkError)
          \/ \E t \in Texts :
               LET text == Trim(t)
                   l == [lib EXCEPT !.body = <<t>>]
               IN  lib' = IF text = <<>> THEN Reject(l, Err("Error", MsgNoSpeech))
                          ELSE Resolve(l, text)
  /\ timers' = IF lib'.result = "rejected" THEN clearTimeout(timers, lib.timer)
               ELSE timers
  /\ UNCHANGED <<platform, store, uiVars, startPc, stopPc, stopLocals, alert,
                 consoleLog, sideVars, requests, relay, relayLog, invocations,
                 flow>>

\* A transcribeNative that sends the request again after a network failure.
TranscribeNativeNetworkErrorRetries ==
  /\ lib.op = "transcribe"
  /\ lib.platform = "native"
  /\ lib.pc = "fetch"
  /\ ~lib.aborted
  /\ requests' = Append(requests,
       Request("transcribe", "client", getApiEndpoint(lib.provider),
               "/audio/transcriptions", lib.apiKey))
  /\ UNCHANGED <<platform, store, uiVars, startPc, stopPc, stopLocals, alert,
                 consoleLog, sideVars, lib, timers, relay, relayLog, invocations,
                 flow>>

\* expoFetch rejects with a network failure: catch, clearTimeout, rethrow.
TranscribeNativeNetworkError ==
  /\ lib.op = "transcribe"
  /\ lib.platform = "native"
  /\ lib.pc = "fetch"
  /\ ~lib.aborted
  /\ lib' = Reject(Env(lib, "network"), NetworkError)
  /\ timers' = clearTimeout(timers, lib.timer)
  /\ UNCHANGED <<platform, store, uiVars, startPc, stopPc, stopLocals, alert,
                 consoleLog, sideVars, requests, relay, relayLog, invocations,
                 flow>>

\* The aborted expoFetch rejects with an AbortError: catch, clearTimeout,
\* throw the timed-out error.
TranscribeNativeAborted ==
  /\ lib.op = "transcribe"
  /\ lib.platform = "native"
  /\ lib.pc = "fetch"
  /\ lib.aborted
  /\ lib' = Reject(Env(lib, "timeout"), Err("Error", MsgTimedOut))
  /\ timers' = clearTimeout(timers, lib.timer)
  /\ UNCHANGED <<platform, store, uiVars, startPc, stopPc, stopLocals, alert,
                 consoleLog, sideVars, requests, relay, relayLog, invocations,
                 flow>>

\* A pending timer fires: () => controller.abort().  The abort only matters
\* while the request of that controller is still in flight.
TimerFire ==
  \E i \in 1..Len(timers) :
    /\ timers[i].state = "pending"
    /\ timers' = [timers EXCEPT ![i].state = "fired"]
    /\ lib' = IF lib.timer = i /\ lib.pc = "fetch"
              THEN [lib EXCEPT !.aborted = TRUE]
              ELSE lib
    /\ UNCHANGED <<platform, store, uiVars, startPc, stopPc, stopLocals, alert,
                   consoleLog, sideVars, requests, relay, relayLog, invocations,
                   flow>>

\* ------------------------------------------------------------------------
\* lib/transcription.ts: polishNative
\* ------------------------------------------------------------------------
\* A chat-completion body: malformed JSON, JSON without the content field, or
\* JSON with choices[0].message.content.
ChatBodies ==
  {[json |-> FALSE, content |-> <<>>], [json |-> TRUE, content |-> <<>>]}
    \cup {[json |-> TRUE, content |-> <<t>>] : t \in Texts}

\* content || rawText, without the trim.
ContentOrVerbatim(body, text) ==
  IF body.content # <<>> /\ body.content[1] # <<>>
  THEN body.content[1]
  ELSE text

\* data.choices?.[0]?.message?.content?.trim() || rawText
ContentOr(body, text) ==
  IF body.content # <<>> /\ Trim(body.content[1]) # <<>>
  THEN Trim(body.content[1])
  ELSE text

\* A polishNative that returns rawText.trim() for a failed status.
PolishNativeResponseTrims ==
  /\ lib.op = "polish"
  /\ lib.platform = "native"
  /\ lib.pc = "fetch"
  /\ ~lib.aborted
  /\ timers' = clearTimeout(timers, lib.timer)
  /\ \E status \in Statuses :
       lib' = IF ~ResponseOk(status)
              THEN Resolve([lib EXCEPT !.status = status, !.env = "status"],
                           Trim(lib.text))
              ELSE [lib EXCEPT !.pc = "body", !.status = status, !.env = "ok"]
  /\ UNCHANGED <<platform, store, uiVars, startPc, stopPc, stopLocals, alert,
                 consoleLog, sideVars, requests, relay, relayLog, invocations,
                 flow>>

\* expoFetch resolves: clearTimeout; a failed status returns rawText.
PolishNativeResponse ==
  /\ lib.op = "polish"
  /\ lib.platform = "native"
  /\ lib.pc = "fetch"
  /\ ~lib.aborted
  /\ timers' = clearTimeout(timers, lib.timer)
  /\ \E status \in Statuses :
       lib' = IF ~ResponseOk(status)
              THEN Resolve([lib EXCEPT !.status = status, !.env = "status"],
                           lib.text)
              ELSE [lib EXCEPT !.pc = "body", !.status = status, !.env = "ok"]
  /\ UNCHANGED <<platform, store, uiVars, startPc, stopPc, stopLocals, alert,
                 consoleLog, sideVars, requests, relay, relayLog, invocations,
                 flow>>

\* await response.json(): a malformed body lands in the catch block.
PolishNativeBody ==
  /\ lib.op = "polish"
  /\ lib.platform = "native"
  /\ lib.pc = "body"
  /\ \E body \in ChatBodies :
       lib' = IF body.json
              THEN Resolve([lib EXCEPT !.body = body.content],
                           ContentOr(body, lib.text))
              ELSE Resolve(Env(lib, "malformed"), lib.text)
  /\ UNCHANGED <<platform, store, uiVars, startPc, stopPc, stopLocals, alert,
                 consoleLog, sideVars, timers, requests, relay, relayLog,
                 invocations, flow>>

\* A polishNative whose catch block rethrows.
PolishNativeCatchRethrows ==
  /\ lib.op = "polish"
  /\ lib.platform = "native"
  /\ lib.pc = "fetch"
  /\ lib' = Reject(Env(lib, IF lib.aborted THEN "timeout" ELSE "network"),
                   NetworkError)
  /\ UNCHANGED <<platform, store, uiVars, startPc, stopPc, stopLocals, alert,
                 consoleLog, sideVars, timers, requests, relay, relayLog,
                 invocations, flow>>

\* expoFetch rejects (network failure, or the abort of the timer): the catch
\* block returns rawText; it does not touch the timer.
PolishNativeCatch ==
  /\ lib.op = "polish"
  /\ lib.platform = "native"
  /\ lib.pc = "fetch"
  /\ lib' = Resolve(Env(lib, IF lib.aborted THEN "timeout" ELSE "network"),
                    lib.text)
  /\ UNCHANGED <<platform, store, uiVars, startPc, stopPc, stopLocals, alert,
                 consoleLog, sideVars, timers, requests, relay, relayLog,
                 invocations, flow>>

\* ------------------------------------------------------------------------
\* server/routes.ts: the relay
\* ------------------------------------------------------------------------
\* A route that answers every request with status 500.
RelayRespAlways500(status, isJson, text, error) ==
  [status |-> 500, json |-> isJson, text |-> text, error |-> error]

RelayResp(status, isJson, text, error) ==
  [status |-> status, json |-> isJson, text |-> text, error |-> error]

RelayBaseUrl(provider) ==
  IF provider = "groq" THEN "api.groq.com" ELSE "api.openai.com"

\* Node's fetch refuses a header value with a line break inside it and throws
\* a TypeError whose message quotes the value.
HeaderValid(key) == key # "sk\nB"
InvalidHeaderError(key) ==
  Err("TypeError",
      <<"Headers.append: \"Bearer ", key, "\" is an invalid header value.">>)
FetchFailed == Err("TypeError", <<"fetch failed">>)

\* err.message || "Internal server error"
RelayErrorText(err) ==
  IF err.message # <<>> THEN err.message ELSE <<"Internal server error">>

RelayLogTag(route) ==
  IF route = "/api/transcribe" THEN "Transcription proxy error:"
  ELSE "Polish proxy error:"

\* The catch block of a route: console.error(tag, err); res.status(500).json
RelayCatch(err) ==
  /\ relayLog' = relayLog \cup {[tag |-> RelayLogTag(relay.route), err |-> err]}
  /\ relay' = [relay EXCEPT !.pc = "responded",
                            !.resp = RelayResp(500, TRUE, <<>>, <<RelayErrorText(err)>>)]

\* A validation that does not look at provider and text.
RelayMissingFieldsKeyOnly ==
  IF relay.route = "/api/transcribe"
  THEN relay.apiKey = NoKey \/ ~relay.hasAudio
  ELSE relay.apiKey = NoKey

\* if (!apiKey || !provider || !audioBase64) / if (!apiKey || !text)
RelayMissingFields ==
  IF relay.route = "/api/transcribe"
  THEN relay.apiKey = NoKey \/ relay.provider = "" \/ ~relay.hasAudio
  ELSE relay.apiKey = NoKey \/ relay.text = <<>>

\* Required-field validation, then the upstream fetch is issued.
RelayReceive ==
  /\ relay.pc = "received"
  /\ IF RelayMissingFields
     THEN /\ relay' = [relay EXCEPT !.pc = "responded",
                 !.resp = RelayResp(400, TRUE, <<>>, <<<<"Missing required fields">>>>)]
          /\ UNCHANGED <<relayLog, requests>>
     ELSE IF ~HeaderValid(relay.apiKey)
     THEN /\ RelayCatch(InvalidHeaderError(relay.apiKey))
          /\ UNCHANGED requests
     ELSE /\ requests' = Append(requests,
               Request(IF relay.route = "/api/transcribe" THEN "transcribe"
                       ELSE "polish",
                       "relay", RelayBaseUrl(relay.provider),
                       IF relay.route = "/api/transcribe"
                       THEN "/audio/transcriptions" ELSE "/chat/completions",
                       relay.apiKey))
          /\ relay' = [relay EXCEPT !.pc = "upstream"]
          /\ UNCHANGED relayLog
  /\ UNCHANGED <<platform, store, uiVars, startPc, stopPc, stopLocals, alert,
                 consoleLog, sideVars, lib, timers, invocations, flow>>

\* The upstream fetch rejects: catch.
RelayUpstreamThrow ==
  /\ relay.pc = "upstream"
  /\ RelayCatch(FetchFailed)
  /\ UNCHANGED <<platform, store, uiVars, startPc, stopPc, stopLocals, alert,
                 consoleLog, sideVars, lib, timers, requests, invocations, flow>>

\* The upstream answers: a failed status is passed through with the raw body
\* as {error}; a successful transcription becomes {text: text.trim()}; a
\* successful completion becomes {text: content.trim() || text}.
RelayUpstreamResponse ==
  /\ relay.pc = "upstream"
  /\ \E status \in Statuses :
       IF ~ResponseOk(status)
       THEN /\ \E body \in ErrBodies :
                 relay' = [relay EXCEPT !.pc = "responded",
                             !.up = <<[status |-> status, body |-> body]>>,
                             !.resp = RelayResp(status, TRUE, <<>>, <<body.raw>>)]
            /\ UNCHANGED relayLog
       ELSE IF relay.route = "/api/transcribe"
       THEN /\ \E t \in Texts :
                 relay' = [relay EXCEPT !.pc = "responded",
                             !.up = <<[status |-> status, body |-> t]>>,
                             !.resp = RelayResp(200, TRUE, <<Trim(t)>>, <<>>)]
            /\ UNCHANGED relayLog
       ELSE \E body \in ChatBodies :
              IF body.json
              THEN /\ relay' = [relay EXCEPT !.pc = "responded",
                          !.up = <<[status |-> status, body |-> body]>>,
                          !.resp = RelayResp(200, TRUE,
                                     <<ContentOr(body, relay.text)>>, <<>>)]
                   /\ UNCHANGED relayLog
              ELSE RelayCatch(Err("SyntaxError", <<"Unexpected token">>))
  /\ UNCHANGED <<platform, store, uiVars, startPc, stopPc, stopLocals, alert,
                 consoleLog, sideVars, lib, timers, requests, invocations, flow>>

\* The request never reaches the route: the hosting front end answers 502
\* with a body that is not JSON.
GatewayBody == <<"Bad Gateway">>

GatewayError ==
  /\ relay.pc = "received"
  /\ relay' = [relay EXCEPT !.pc = "responded",
                            !.resp = RelayResp(502, FALSE, <<>>, <<>>)]
  /\ UNCHANGED <<platform, store, uiVars, startPc, stopPc, stopLocals, alert,
                 consoleLog, sideVars, lib, timers, requests, relayLog,
                 invocations, flow>>

\* ------------------------------------------------------------------------
\* lib/transcription.ts: transcribeWeb
\* ------------------------------------------------------------------------
ServerError(status) == <<"Server error (", ToString(status), ")">>

\* data = await response.json().catch(() => null);
\* errMsg = data?.error || `Server error (${response.status})`
WebErrMsg(resp) ==
  IF resp.json /\ resp.error # <<>> /\ resp.error[1] # <<>>
  THEN resp.error[1]
  ELSE ServerError(resp.status)

\* The body of a failed relay response as the client receives it: the JSON
\* text {error: <text>} written by the route (its error field is the text the
\* route reports), or the text of a front end that is not JSON.
WebErrBody(resp) ==
  IF resp.json
  THEN [json |-> TRUE,
        raw |-> <<"{error:">> \o (IF resp.error # <<>> THEN resp.error[1] ELSE <<>>)
                  \o <<"}">>,
        message |-> IF resp.error # <<>> THEN resp.error[1] ELSE <<>>]
  ELSE [json |-> FALSE, raw |-> GatewayBody, message |-> <<>>]

\* fetch(audioUri), blob, FileReader, then the POST to the relay (no timer).
TranscribeWebRead ==
  /\ lib.op = "transcribe"
  /\ lib.pc = "readBlob"
  /\ LET audio == lib.audio[1]
     IN  IF ~audio.readable
         THEN /\ lib' = Reject(Env(lib, "payload"), Err("Error",
                          <<"Failed to read audio. Please try again.">>))
              /\ UNCHANGED <<requests, relay>>
         ELSE IF audio.size = "empty"
         THEN /\ lib' = Reject(Env(lib, "payload"), Err("Error",
                          <<"Failed to convert audio. Please try again.">>))
              /\ UNCHANGED <<requests, relay>>
         ELSE /\ requests' = Append(requests,
                   Request("transcribe", "client", getBackendBaseUrl,
                           "/api/transcribe", lib.apiKey))
              /\ relay' = [IdleRelay EXCEPT !.pc = "received",
                             !.route = "/api/transcribe", !.apiKey = lib.apiKey,
                             !.provider = lib.provider, !.hasAudio = TRUE]
              /\ lib' = [lib EXCEPT !.pc = "fetch"]
  /\ UNCHANGED <<platform, store, uiVars, startPc, stopPc, stopLocals, alert,
                 consoleLog, sideVars, timers, relayLog, invocations, flow>>

\* The relay's response: a failed status is classified; a successful one is
\* parsed, data.text is trimmed and must not be empty.
TranscribeWebResponse ==
  /\ lib.op = "transcribe"
  /\ lib.platform = "web"
  /\ lib.pc = "fetch"
  /\ relay.pc = "responded"
  /\ LET resp == relay.resp
     IN  lib' =
           IF ~ResponseOk(resp.status)
           THEN Reject([lib EXCEPT !.status = resp.status, !.env = "status",
                                   !.body = <<WebErrBody(resp)>>],
                       Err("Error", parseErrorMessage(resp.status, WebErrMsg(resp))))
           ELSE IF ~resp.json
           THEN Reject([lib EXCEPT !.status = resp.status, !.env = "malformed"],
                       Err("SyntaxError", <<"Unexpected token">>))
           ELSE IF resp.text = <<>> \/ Trim(resp.text[1]) = <<>>
           THEN Reject([lib EXCEPT !.status = resp.status, !.env = "ok",
                                   !.body = resp.text],
                       Err("Error", MsgNoSpeech))
           ELSE Resolve([lib EXCEPT !.status = resp.status, !.env = "ok",
                                    !.body = resp.text],
                        Trim(resp.text[1]))
  /\ relay' = IdleRelay
  /\ UNCHANGED <<platform, store, uiVars, startPc, stopPc, stopLocals, alert,
                 consoleLog, sideVars, timers, requests, relayLog, invocations,
                 flow>>

\* The POST to the relay rejects (backend unreachable).
TranscribeWebNetworkError ==
  /\ lib.op = "transcribe"
  /\ lib.platform = "web"
  /\ lib.pc = "fetch"
  /\ relay.pc = "received"
  /\ lib' = Reject(Env(lib, "network"), NetworkError)
  /\ relay' = IdleRelay
  /\ UNCHANGED <<platform, store, uiVars, startPc, stopPc, stopLocals, alert,
                 consoleLog, sideVars, timers, requests, relayLog, invocations,
                 flow>>

\* ------------------------------------------------------------------------
\* lib/transcription.ts: polishWeb
\* ------------------------------------------------------------------------
\* The relay's response: a failed status returns rawText; a successful one
\* returns data.text || rawText; a body that is not JSON lands in the catch.
PolishWebResponse ==
  /\ lib.op = "polish"
  /\ lib.platform = "web"
  /\ lib.pc = "fetch"
  /\ relay.pc = "responded"
  /\ LET resp == relay.resp
     IN  lib' =
           IF ~ResponseOk(resp.status)
           THEN Resolve([lib EXCEPT !.status = resp.status, !.env = "status"],
                        lib.text)
           ELSE IF ~resp.json
           THEN Resolve([lib EXCEPT !.status = resp.status, !.env = "malformed"],
                        lib.text)
           ELSE IF resp.text # <<>> /\ resp.text[1] # <<>>
           THEN Resolve([lib EXCEPT !.status = resp.status, !.env = "ok",
                                    !.body = resp.text],
                        resp.text[1])
           ELSE Resolve([lib EXCEPT !.status = resp.status, !.env = "ok",
                                    !.body = resp.text],
                        lib.text)
  /\ relay' = IdleRelay
  /\ UNCHANGED <<platform, store, uiVars, startPc, stopPc, stopLocals, alert,
                 consoleLog, sideVars, timers, requests, relayLog, invocations,
                 flow>>

\* The POST to the relay rejects: the catch block returns rawText.
PolishWebCatch ==
  /\ lib.op = "polish"
  /\ lib.platform = "web"
  /\ lib.pc = "fetch"
  /\ relay.pc = "received"
  /\ lib' = Resolve(Env(lib, "network"), lib.text)
  /\ relay' = IdleRelay
  /\ UNCHANGED <<platform, store, uiVars, startPc, stopPc, stopLocals, alert,
                 consoleLog, sideVars, timers, requests, relayLog, invocations,
                 flow>>

\* ------------------------------------------------------------------------
\* Specification of the record screen
\* ------------------------------------------------------------------------
Settings ==
  \/ \E p \in Providers : \E k \in KeysOf(p) \cup {NoKey} : handleSaveKey(p, k)
  \/ \E p \in Providers : handleProviderChange(p)

Library ==
  \/ TranscribeNativeRead
  \/ TranscribeNativeResponse
  \/ TranscribeNativeBody
  \/ TranscribeNativeNetworkError
  \/ TranscribeNativeAborted
  \/ TimerFire
  \/ PolishNativeResponse
  \/ PolishNativeBody
  \/ PolishNativeCatch
  \/ TranscribeWebRead
  \/ TranscribeWebResponse
  \/ TranscribeWebNetworkError
  \/ PolishWebResponse
  \/ PolishWebCatch

Relay ==
  \/ RelayReceive
  \/ RelayUpstreamThrow
  \/ RelayUpstreamResponse
  \/ GatewayError

Next ==
  \/ Settings
  \/ StartTap
  \/ StartGetKey
  \/ StartCreate
  \/ StopTap
  \/ StopUnload
  \/ StopGetKey
  \/ StopAfterTranscribe
  \/ StopAfterPolish
  \/ StopClipboard
  \/ StopSave
  \/ Library
  \/ Relay

Spec == Init /\ [][Next]_vars

\* The steps that run without an answer from a provider: continuations of
\* the handlers after device and storage calls, the reading of the audio, the
\* relay's own handling and the delivery of its response, timers, and the
\* catch blocks of an aborted request.  An answer of the provider (status,
\* body or network failure) may never come.
Scheduled ==
  \/ StartGetKey
  \/ StartCreate
  \/ StopUnload
  \/ StopGetKey
  \/ StopAfterTranscribe
  \/ StopAfterPolish
  \/ StopClipboard
  \/ StopSave
  \/ TranscribeNativeRead
  \/ TranscribeWebRead
  \/ TimerFire
  \/ TranscribeNativeAborted
  \/ (lib.aborted /\ PolishNativeCatch)
  \/ RelayReceive
  \/ TranscribeWebResponse
  \/ PolishWebResponse

\* The record screen under the scheduling of the JavaScript runtime: a
\* continuation or timer that can run eventually runs.
SpecLive == Init /\ [][Next]_vars /\ WF_vars(Scheduled)

\* ------------------------------------------------------------------------
\* Specification of the library called directly, with arbitrary arguments
\* ------------------------------------------------------------------------
\* transcribeAudio(audioUri, apiKey, provider) called by a test.
HarnessTranscribe ==
  /\ lib.op = "none"
  /\ harness.calls < MaxCalls
  /\ \E audio \in AudioFiles, p \in Providers, k \in Keys \cup {NoKey} :
       lib' = transcribeAudio(<<audio>>, k, p)
  /\ harness' = [NoHarness EXCEPT !.calls = harness.calls + 1, !.op = "transcribe"]
  /\ UNCHANGED <<platform, store, uiVars, startPc, stopPc, stopLocals, alert,
                 consoleLog, clipboard, history, timers, requests, relay,
                 relayLog, invocations, flow>>

\* polishTranscript(rawText, apiKey, provider) called by a test.
HarnessPolish ==
  /\ lib.op = "none"
  /\ harness.calls < MaxCalls
  /\ \E t \in Texts, p \in Providers, k \in Keys \cup {NoKey} :
       /\ polishTranscript(t, k, p)
       /\ harness' = [NoHarness EXCEPT !.calls = harness.calls + 1,
                                       !.op = "polish", !.text = t]
  /\ UNCHANGED <<platform, store, uiVars, startPc, stopPc, stopLocals, alert,
                 consoleLog, clipboard, history, relayLog, invocations, flow>>

\* The test awaits the call.
HarnessAwait ==
  /\ harness.op # "none"
  /\ harness.result = "none"
  /\ lib.pc = "settled"
  /\ harness' = [harness EXCEPT !.result = lib.result, !.value = lib.value,
                                !.error = lib.error, !.env = lib.env,
                                !.body = lib.body]
  /\ lib' = IdleLib
  /\ UNCHANGED <<platform, store, uiVars, startPc, stopPc, stopLocals, alert,
                 consoleLog, clipboard, history, timers, requests, relay,
                 relayLog, invocations, flow>>

\* parseErrorMessage(status, errorText) called by a test.
HarnessClassify ==
  /\ harness.op = "none"
  /\ \E status \in ClassifyStatuses, errorText \in ClassifyTexts :
       harness' = [NoHarness EXCEPT !.op = "classify", !.status = status,
                                    !.text = errorText, !.result = "resolved",
                                    !.value = parseErrorMessage(status, errorText)]
  /\ UNCHANGED <<platform, store, uiVars, startPc, stopPc, stopLocals, alert,
                 consoleLog, clipboard, history, netVars, invocations, flow>>

\* The file part of transcribeNative's multipart body for an audio URI:
\* filename="recording.<fileExtension>", Content-Type: <mimeType>.
HarnessPayload ==
  /\ harness.op = "none"
  /\ \E audioUri \in Uris :
       harness' = [NoHarness EXCEPT !.op = "payload", !.text = audioUri,
                                    !.result = "resolved",
                                    !.ext = fileExtension(audioUri),
                                    !.mime = mimeType(fileExtension(audioUri))]
  /\ UNCHANGED <<platform, store, uiVars, startPc, stopPc, stopLocals, alert,
                 consoleLog, clipboard, history, netVars, invocations, flow>>

NextUnit ==
  \/ HarnessClassify
  \/ HarnessPayload

SpecUnit == Init /\ [][NextUnit]_vars

\* A client posts a JSON body to a route of the relay; each field may be
\* missing.
HarnessPost ==
  /\ relay.pc \in {"idle", "responded"}
  /\ harness.calls < MaxCalls
  /\ \E route \in {"/api/transcribe", "/api/polish"},
        k \in Keys \cup {NoKey}, p \in Providers \cup {""},
        t \in Texts, hasAudio \in BOOLEAN :
       /\ route = "/api/transcribe" => t = <<>>
       /\ route = "/api/polish" => ~hasAudio
       /\ relay' = [IdleRelay EXCEPT !.pc = "received", !.route = route,
                                     !.apiKey = k, !.provider = p, !.text = t,
                                     !.hasAudio = hasAudio]
       /\ requests' = Append(requests,
            Request(IF route = "/api/transcribe" THEN "transcribe" ELSE "polish",
                    "client", getBackendBaseUrl, route, k))
  /\ harness' = [NoHarness EXCEPT !.calls = harness.calls + 1, !.op = "post"]
  /\ UNCHANGED <<platform, store, uiVars, startPc, stopPc, stopLocals, alert,
                 consoleLog, clipboard, history, lib, timers, relayLog,
                 invocations, flow>>

NextRelay ==
  \/ HarnessPost
  \/ RelayReceive
  \/ RelayUpstreamThrow
  \/ RelayUpstreamResponse

SpecRelay == Init /\ [][NextRelay]_vars

NextLib ==
  \/ HarnessTranscribe
  \/ HarnessPolish
  \/ HarnessAwait
  \/ Library
  \/ Relay

SpecLib == Init /\ [][NextLib]_vars

\* ------------------------------------------------------------------------
\* Specification of lib/history.ts called by the record screen and the
\* history screen
\* ------------------------------------------------------------------------
\* A stored entry; the texts and the provider play no part in lib/history.ts.
Entry(id) ==
  [id |-> id, rawText |-> <<"a">>, polishedText |-> <<"a">>,
   provider |-> "openai"]

\* The list stored after n saves into an empty history, newest first.
StoredAfter(n) == [i \in 1..n |-> Entry(n + 1 - i)]

\* The lengths of the stored list the calls start from: empty, one entry,
\* one below the limit, at the limit.
StoredLengths == {0, 1, HISTORY_LIMIT - 1, HISTORY_LIMIT}

InitHistory ==
  /\ platform \in Platforms
  /\ store = [provider |-> "openai", openai |-> NoKey, groq |-> NoKey]
  /\ isRecording = FALSE
  /\ isProcessing = FALSE
  /\ rawText = <<>>
  /\ polishedText = <<>>
  /\ recordingRef = 0
  /\ startPc = "idle"
  /\ stopPc = "idle"
  /\ stopLocals = NoLocals
  /\ alert = NoAlert
  /\ consoleLog = {}
  /\ clipboard = <<>>
  /\ history \in {StoredAfter(n) : n \in StoredLengths}
  /\ lib = IdleLib
  /\ timers = <<>>
  /\ requests = <<>>
  /\ relay = IdleRelay
  /\ relayLog = {}
  /\ invocations = 0
  /\ flow = "Idle"
  /\ harness = NoHarness

\* The ids the history screen offers for deletion: here the newest and the
\* oldest entry of the stored list.
DeleteTargets(h) == IF h = <<>> THEN {} ELSE {h[1].id, h[Len(h)].id}

\* stopRecording calls saveToHistory with a fresh id, handleDelete calls
\* deleteFromHistory with the id of a listed entry, handleClearAll calls
\* clearHistory.  The call runs up to its first await.
HistoryCall ==
  /\ harness.calls < MaxCalls
  /\ \E op \in {"save", "delete", "clear"} :
       \E arg \in (IF op = "save" THEN {HISTORY_LIMIT + harness.calls + 1}
                    ELSE IF op = "delete" THEN DeleteTargets(history)
                    ELSE {0}) :
         harness' = [harness EXCEPT
                       !.calls = harness.calls + 1,
                       !.op = "history",
                       !.hist = Append(harness.hist,
                                  [op |-> op, arg |-> arg,
                                   pc |-> IF op = "clear" THEN "write" ELSE "read",
                                   read |-> <<>>])]
  /\ UNCHANGED <<platform, store, uiVars, startPc, stopPc, stopLocals, alert,
                 consoleLog, clipboard, history, netVars, invocations, flow>>

\* const history = await getHistory(): AsyncStorage.getItem resolves with the
\* stored list, or rejects.
HistoryRead ==
  /\ \E i \in 1..Len(harness.hist) :
       /\ harness.hist[i].pc = "read"
       /\ \E outcome \in {"throw", "ok"} :
            harness' = [harness EXCEPT !.hist[i] =
                          IF outcome = "throw"
                          THEN [@ EXCEPT !.pc = "failed"]
                          ELSE [@ EXCEPT !.pc = "write", !.read = history]]
  /\ UNCHANGED <<platform, store, uiVars, startPc, stopPc, stopLocals, alert,
                 consoleLog, clipboard, history, netVars, invocations, flow>>

\* await AsyncStorage.setItem(HISTORY_KEY, JSON.stringify(...)) with the list
\* computed from what the call read, or removeItem; the storage call resolves
\* or rejects.
HistoryWrite ==
  /\ \E i \in 1..Len(harness.hist) :
       LET call == harness.hist[i]
       IN  /\ call.pc = "write"
           /\ \E outcome \in {"throw", "ok"} :
                IF outcome = "throw"
                THEN /\ harness' = [harness EXCEPT !.hist[i].pc = "failed"]
                     /\ UNCHANGED history
                ELSE /\ harness' = [harness EXCEPT !.hist[i].pc = "done"]
                     /\ history' =
                          IF call.op = "save"
                          THEN saveToHistory(call.read, Entry(call.arg))
                          ELSE IF call.op = "delete"
                          THEN deleteFromHistory(call.read, call.arg)
                          ELSE clearHistory
  /\ UNCHANGED <<platform, store, uiVars, startPc, stopPc, stopLocals, alert,
                 consoleLog, clipboard, netVars, invocations, flow>>

NextHistory ==
  \/ HistoryCall
  \/ HistoryRead
  \/ HistoryWrite

SpecHistory == InitHistory /\ [][NextHistory]_vars

\* ------------------------------------------------------------------------
\* Properties
\* ------------------------------------------------------------------------
IsBlank(t) == \A i \in 1..Len(t) : t[i] = " "

HasPolishRequest == \E i \in 1..Len(requests) : requests[i].op = "polish"
HasTranscribeRequest == \E i \in 1..Len(requests) : requests[i].op = "transcribe"

PolishFailures == {"status", "network", "timeout", "malformed"}

\* C1: once transcription has returned text, no outcome of the refinement
\* call fails the operation: polishTranscript always resolves, the flow
\* leaves Polishing only for Complete, with the unrefined text when the
\* refinement failed, and Failed is entered only from AcquiringCredential
\* and Transcribing.
C1_PolishNeverFailsTheFlow ==
  [][ /\ (flow' = "Failed" /\ flow # "Failed"
            => flow \in {"AcquiringCredential", "Transcribing"})
      /\ (lib.op = "polish" /\ lib.pc # "settled" /\ lib'.pc = "settled"
            => lib'.result = "resolved")
      /\ (stopPc = "polish" /\ stopPc' # "polish"
            => /\ flow' = "Complete"
               /\ stopPc' = "clipboard"
               /\ (lib.env \in PolishFailures
                     => /\ polishedText' = stopLocals.raw
                        /\ stopLocals'.polished = stopLocals.raw)) ]_vars

C1_Witness ==
  /\ flow = "Complete"
  /\ stopPc = "clipboard"
  /\ stopLocals.polishEnv = "status"
  /\ stopLocals.raw = <<"a">>
  /\ polishedText = <<"a">>

\* C2: when the refinement endpoint is unreachable or answers with a failed
\* status, polishTranscript resolves to exactly the text it was given.
C2_PolishIdentityFallback ==
  /\ (lib.op = "polish" /\ lib.pc = "settled" /\ lib.env \in {"network", "status"}
        => lib.result = "resolved" /\ lib.value = harness.text)
  /\ (harness.op = "polish" /\ harness.result # "none"
        /\ harness.env \in {"network", "status"}
        => harness.result = "resolved" /\ harness.value = harness.text)

C2_Witness ==
  /\ harness.op = "polish"
  /\ harness.result = "resolved"
  /\ harness.env = "status"
  /\ harness.text = <<" ", "a">>
  /\ harness.value = <<" ", "a">>

\* C3: a polish request is issued only after transcribeAudio has resolved
\* with non-empty text; a failed transcription (for example status 401 with
\* its fixed message) fails the operation with the error's message shown
\* verbatim and without any polish request.
C3_TranscriptionPrecedesPolish ==
  /\ [][ /\ (~HasPolishRequest /\ HasPolishRequest'
               => /\ lib.op = "transcribe" /\ lib.pc = "settled"
                  /\ lib.result = "resolved"
                  /\ lib.value # <<>> /\ ~IsBlank(lib.value)
                  /\ HasTranscribeRequest)
         /\ (stopPc = "transcribe" /\ stopPc' # "transcribe"
               /\ lib.result = "rejected"
               => /\ flow' = "Failed"
                  /\ alert' = [title |-> "Error", message |-> lib.error.message]
                  /\ ~HasPolishRequest') ]_vars
  /\ [](flow = "Failed" => ~HasPolishRequest)
  /\ [](lib.op = "transcribe" /\ lib.pc = "settled" /\ lib.status = 401
          => lib.result = "rejected" /\ lib.error.message = MsgInvalidKey)

C3_Witness ==
  /\ flow = "Failed"
  /\ alert = [title |-> "Error", message |-> MsgInvalidKey]
  /\ HasTranscribeRequest
  /\ ~HasPolishRequest

\* C4: without a credential for the active provider the operation fails with
\* an error shown to the user and issues no network request, at the start of
\* a recording and at its stop alike.
C4_NoCredentialFailsFast ==
  [][ /\ (stopPc = "getKey" /\ stopPc' # "getKey" /\ getActiveApiKey(store) = <<>>
            => /\ flow' = "Failed"
               /\ alert' # NoAlert
               /\ requests' = <<>>
               /\ lib'.op = "none")
      /\ (startPc = "getKey" /\ startPc' # "getKey" /\ getActiveApiKey(store) = <<>>
            => /\ alert' # NoAlert
               /\ startPc' = "idle"
               /\ requests' = requests) ]_vars

\* C5: transcribeAudio never resolves with an empty or whitespace-only text:
\* a successful response whose text is missing, empty or blank is rejected
\* with the no-speech message, and a resolved value has no blank at either end.
C5_NoBlankTranscription ==
  lib.op = "transcribe" /\ lib.pc = "settled"
    => /\ (lib.result = "resolved"
             => /\ lib.value # <<>>
                /\ lib.value[1] # " "
                /\ lib.value[Len(lib.value)] # " ")
       /\ (lib.env = "ok" /\ (lib.body = <<>> \/ IsBlank(lib.body[1]))
             => lib.result = "rejected" /\ lib.error.message = MsgNoSpeech)

C5_Witness ==
  /\ lib.op = "transcribe"
  /\ lib.pc = "settled"
  /\ lib.env = "ok"
  /\ lib.body = << <<" ", " ">> >>
  /\ lib.result = "rejected"
  /\ lib.error.message = MsgNoSpeech

TimeoutOf(op) ==
  IF op = "transcribe" THEN TRANSCRIBE_TIMEOUT_MS ELSE POLISH_TIMEOUT_MS

\* C6: every transcription and polish request in flight is covered by a
\* timer of its operation's duration (60,000 ms or 30,000 ms), on the direct
\* transport and on the relay transport alike.
C6_EveryRequestHasTimeout ==
  lib.pc = "fetch"
    => /\ lib.timer \in 1..Len(timers)
       /\ timers[lib.timer].state \in {"pending", "fired"}
       /\ timers[lib.timer].ms = TimeoutOf(lib.op)

\* C7: a transcription that timed out has had its request aborted and is
\* rejected with an error that carries the operation label, the configured
\* duration and the advice to check the connection.
C7_TimeoutAbortsAndReports ==
  lib.op = "transcribe" /\ lib.pc = "settled" /\ lib.env = "timeout"
    => /\ lib.aborted
       /\ lib.result = "rejected"
       /\ Includes(lib.error.message, "Transcription")
       /\ \/ Includes(lib.error.message, ToString(TRANSCRIBE_TIMEOUT_MS \div 1000))
          \/ Includes(lib.error.message, ToString(TRANSCRIBE_TIMEOUT_MS))
       /\ Includes(lib.error.message,
                   " Check your internet connection and try again.")

\* C8: once transcribeAudio or polishTranscript has settled, the timer that
\* the call created is no longer pending.
C8_NoTimerPendingAfterSettle ==
  lib.pc = "settled" /\ lib.timer \in 1..Len(timers)
    => timers[lib.timer].state # "pending"

\* C9: every request that carries the API key goes to a provider host, never
\* to the application's own backend.
C9_KeyOnlyToProvider ==
  \A i \in 1..Len(requests) :
    requests[i].apiKey # NoKey => requests[i].to \in ProviderHosts

\* C10: no console output of the client or of the relay and no history entry
\* contains the API key.
C10_KeyNeverLoggedOrStored ==
  \A k \in Keys :
    /\ \A e \in consoleLog \cup relayLog : ~Includes(e.err.message, k)
    /\ \A i \in 1..Len(history) :
         /\ ~Includes(history[i].rawText, k)
         /\ ~Includes(history[i].polishedText, k)
         /\ history[i].provider # k

ClientRequests == SelectSeq(requests, LAMBDA r : r.from = "client")

\* C11: the transport follows the platform of the call: on web every request
\* of the client goes to /api/transcribe or /api/polish on the application's
\* backend and none to a provider host; on native every request of the client
\* goes to the API base of the provider the call was given, and the relay is
\* never involved.
C11_TransportFollowsPlatform ==
  /\ [](\A i \in 1..Len(ClientRequests) :
          LET r == ClientRequests[i]
          IN  IF platform = "web"
              THEN /\ r.to = getBackendBaseUrl
                   /\ r.to \notin ProviderHosts
                   /\ r.path = IF r.op = "transcribe" THEN "/api/transcribe"
                                ELSE "/api/polish"
              ELSE /\ r.to \in ProviderHosts
                   /\ r.to # getBackendBaseUrl
                   /\ r.path = IF r.op = "transcribe" THEN "/audio/transcriptions"
                                ELSE "/chat/completions")
  /\ [](platform # "web" => relay.pc = "idle" /\ Len(ClientRequests) = Len(requests))
  /\ [][ Len(ClientRequests') > Len(ClientRequests)
           => LET r == ClientRequests'[Len(ClientRequests')]
              IN  /\ lib'.platform = platform
                  /\ r.op = lib'.op
                  /\ platform # "web" => r.to = getApiEndpoint(lib'.provider)
                  /\ platform = "web" => /\ relay'.pc = "received"
                                          /\ relay'.route = r.path
                                          /\ relay'.provider = lib'.provider ]_vars

C11_Witness ==
  /\ platform = "web"
  /\ Len(ClientRequests) = 2
  /\ ClientRequests[1].path = "/api/transcribe"
  /\ ClientRequests[2].path = "/api/polish"
  /\ ClientRequests[2].to = BackendHost
  /\ stopLocals.keyData # <<>>
  /\ stopLocals.keyData[1].provider = "openai"

\* C12: a transcription whose response has status 401 is rejected with
\* exactly the invalid-key message, whatever the body of the response and
\* whether it could be read, on the direct path and through the relay.
C12_Status401IsInvalidKey ==
  lib.op = "transcribe" /\ lib.pc = "settled" /\ lib.status = 401
    => /\ lib.result = "rejected"
       /\ lib.env = "status"
       /\ lib.error = Err("Error", MsgInvalidKey)

C12_Witness ==
  /\ lib.op = "transcribe"
  /\ lib.pc = "settled"
  /\ lib.status = 401
  /\ lib.body = <<JsonErr(<<"Audio">>)>>
  /\ lib.error.message = MsgInvalidKey

ContainsAudio(t) == \E i \in 1..Len(t) : t[i] \in {"audio", "Audio", "AUDIO"}

IsInfix(t, m) ==
  \E k \in 0..(Len(m) - Len(t)) : SubSeq(m, k + 1, k + Len(t)) = t

\* C13: parseErrorMessage follows this precedence: 401, 429 and 413 give
\* their fixed messages whatever the text; 400 with "audio" in the text in
\* any letter case gives the audio-format message; any other 400 gives a
\* message that includes the text; every other status gives
\* "Transcription failed (<status>): <text>".
C13_ClassifierPrecedence ==
  harness.op = "classify"
    => LET st == harness.status
           t == harness.text
           m == harness.value
       IN  CASE st = 401 -> m = MsgInvalidKey
             [] st = 429 -> m = MsgRateLimit
             [] st = 413 -> m = MsgTooLong
             [] st = 400 /\ ContainsAudio(t) -> m = MsgAudioFormat
             [] st = 400 /\ ~ContainsAudio(t) ->
                  IsInfix(t, m) /\ m \notin {MsgInvalidKey, MsgRateLimit,
                                              MsgTooLong, MsgAudioFormat}
             [] OTHER ->
                  m = <<"Transcription failed (", ToString(st), "): ">> \o t

C13_Witness ==
  /\ harness.op = "classify"
  /\ harness.status = 400
  /\ harness.text = <<"a", "AUDIO">>
  /\ harness.value = MsgAudioFormat

\* The text the classifier is to be given for a failed response: the parsed
\* error.message when the body has one, otherwise the raw text of the body.
ClassifiedText(body) ==
  IF body.json /\ body.message # <<>> THEN body.message ELSE body.raw

\* C14: a transcription that got a failed status and read a body that is
\* not empty is rejected with the classification of the body's error.message
\* when the body is JSON that has one, and of the raw body text otherwise (a
\* body that is not JSON included).
C14_ClassifiedTextIsMessageOrRaw ==
  lib.op = "transcribe" /\ lib.pc = "settled" /\ lib.env = "status"
    /\ lib.body # <<>> /\ lib.body[1].raw # <<>>
    => lib.error.message
         = parseErrorMessage(lib.status, ClassifiedText(lib.body[1]))

\* C15: a transcription whose audio cannot be read, or whose encoded body is
\* empty or shorter than the threshold, is rejected with a payload error and
\* no request for it is issued, to the provider or to the relay, on the
\* native path and on the web path alike.
C15_PayloadErrorBeforeRequest ==
  lib.op = "transcribe" /\ (~lib.audio[1].readable \/ lib.audio[1].size # "long")
    => /\ ~HasTranscribeRequest
       /\ lib.pc \in {"readFile", "readBlob", "settled"}
       /\ (lib.pc = "settled" => lib.result = "rejected" /\ lib.env = "payload")

RecognizedExtensions == {<<"m4a">>, <<"mp4">>, <<"webm">>, <<"caf">>}

HasDot(u) == \E i \in 1..Len(u) : u[i] = "."

LastDot(u) == CHOOSE i \in 1..Len(u) : u[i] = "." /\ \A j \in (i + 1)..Len(u) : u[j] # "."

\* The suffix after the last "." of a URI that has one, without the query.
SuffixOf(u) ==
  LET sfx == SubSeq(u, LastDot(u) + 1, Len(u))
      q == {i \in 1..Len(sfx) : sfx[i] = "?"}
  IN  IF q = {} THEN sfx
      ELSE SubSeq(sfx, 1, (CHOOSE i \in q : \A j \in q : i <= j) - 1)

\* The extension of a URI, absent (<<>>) when the URI has no "." or nothing
\* follows its last ".".
ExtensionOf(u) == IF HasDot(u) THEN SuffixOf(u) ELSE <<>>

\* C16: the extension of the upload's file name is the suffix after the last
\* "." of the URI without its query when that is one of m4a, mp4, webm, caf,
\* and m4a when the URI has no extension or another one.
C16_ExtensionDefaultsToM4a ==
  harness.op = "payload"
    => harness.ext = IF ExtensionOf(harness.text) \in RecognizedExtensions
                     THEN ExtensionOf(harness.text)
                     ELSE <<"m4a">>

\* C17: the MIME type of the upload follows the fixed table for a URI whose
\* extension is m4a, mp4, webm or caf, and is audio/m4a for a URI with
\* another extension or none.
C17_MimeTypeTable ==
  harness.op = "payload"
    => LET e == ExtensionOf(harness.text)
       IN  harness.mime = CASE e = <<"webm">> -> "audio/webm"
                            [] e = <<"mp4">> -> "audio/mp4"
                            [] e = <<"caf">> -> "audio/x-caf"
                            [] e = <<"m4a">> -> "audio/m4a"
                            [] OTHER -> "audio/m4a"

C17_Witness ==
  /\ harness.op = "payload"
  /\ harness.text = <<"rec", ".", "caf", "?">>
  /\ harness.mime = "audio/x-caf"

\* A request that lacks a field its route requires.
LacksRequiredField(r) ==
  \/ r.route = "/api/transcribe"
       /\ (r.apiKey = NoKey \/ r.provider = "" \/ ~r.hasAudio)
  \/ r.route = "/api/polish" /\ (r.apiKey = NoKey \/ r.text = <<>>)

\* C18: the first thing either route does with a request that lacks a
\* required field (apiKey, provider or audioBase64 for /api/transcribe,
\* apiKey or text for /api/polish) is to answer it with status 400; no
\* upstream request is made for it.
C18_RelayValidatesFirst ==
  /\ [][ relay.pc = "received" /\ relay'.pc # "received"
           /\ LacksRequiredField(relay)
           => /\ relay'.pc = "responded"
              /\ relay'.resp.status = 400
              /\ relay'.resp.error # <<>>
              /\ relay'.up = <<>>
              /\ requests' = requests
              /\ relayLog' = relayLog ]_vars
  /\ [](relay.pc = "upstream" => ~LacksRequiredField(relay))
  /\ [](relay.up # <<>> => ~LacksRequiredField(relay))

C18_Witness ==
  /\ relay.pc = "responded"
  /\ relay.route = "/api/transcribe"
  /\ relay.apiKey = "sk-A"
  /\ relay.hasAudio
  /\ relay.provider = ""
  /\ relay.resp.status = 400
  /\ Len(requests) = 1

\* C19: /api/transcribe answers a valid request at most once and the answer
\* follows the upstream: {text} with status 200 when the upstream answered
\* 2xx, {error} with the upstream's status when it answered another status,
\* and {error} with status 500 when the handler threw.
C19_TranscribeRelayResponse ==
  /\ [](relay.pc = "responded" /\ relay.route = "/api/transcribe"
          /\ ~LacksRequiredField(relay) /\ relay.resp.json
          => IF relay.up = <<>>
             THEN /\ relay.resp.status = 500
                  /\ relay.resp.error # <<>>
                  /\ relay.resp.text = <<>>
             ELSE IF ResponseOk(relay.up[1].status)
             THEN /\ relay.resp.status = 200
                  /\ relay.resp.text = <<Trim(relay.up[1].body)>>
                  /\ relay.resp.error = <<>>
             ELSE /\ relay.resp.status = relay.up[1].status
                  /\ relay.resp.error = <<relay.up[1].body.raw>>
                  /\ relay.resp.text = <<>>)
  /\ [][ relay.pc = "responded" /\ relay'.pc = "responded" => relay' = relay ]_vars
  /\ [][ relay.pc # "responded" /\ relay'.pc = "responded"
           => relay.pc \in {"received", "upstream"}
              /\ relay'.route = relay.route ]_vars

C19_Witness ==
  /\ relay.pc = "responded"
  /\ relay.route = "/api/transcribe"
  /\ relay.up # <<>>
  /\ relay.up[1].status = 401
  /\ relay.resp.status = 401
  /\ relay.resp.error = <<JsonErr(<<"a">>).raw>>

\* What /api/polish answers to a valid request once the upstream has
\* answered or the handler has thrown, given the text of a 2xx answer.
PolishRelayAnswers(textOf(_)) ==
  relay.pc = "responded" /\ relay.route = "/api/polish"
    /\ ~LacksRequiredField(relay)
    => IF relay.up = <<>>
       THEN relay.resp.status = 500 /\ relay.resp.error # <<>>
       ELSE IF ResponseOk(relay.up[1].status)
       THEN /\ relay.resp.status = 200
            /\ relay.resp.error = <<>>
            /\ relay.resp.text = <<textOf(relay.up[1].body)>>
       ELSE /\ relay.resp.status = relay.up[1].status
            /\ relay.resp.error = <<relay.up[1].body.raw>>

\* C20 as claimed: on upstream success /api/polish returns {text} with the
\* upstream message content when it is present and not empty, otherwise the
\* request's text; on upstream failure it returns {error}.
C20_PolishRelayContentOrText ==
  PolishRelayAnswers(LAMBDA body :
    IF body.content # <<>> /\ body.content[1] # <<>> THEN body.content[1]
    ELSE relay.text)

\* C20 amended: on upstream success /api/polish returns {text} with the
\* trimmed upstream message content when it is present and not blank,
\* otherwise exactly the request's text; on upstream failure it returns
\* {error}.
C20_PolishRelayTrimmedContentOrText ==
  PolishRelayAnswers(LAMBDA body :
    IF body.content # <<>> /\ ~IsBlank(body.content[1])
    THEN TrimEnd(TrimStart(body.content[1]))
    ELSE relay.text)

C20_Witness ==
  /\ relay.pc = "responded"
  /\ relay.route = "/api/polish"
  /\ relay.text = <<"a">>
  /\ relay.up # <<>>
  /\ relay.up[1].status = 200
  /\ relay.up[1].body.content = << <<" ", " ">> >>
  /\ relay.resp.text = << <<"a">> >>

RequestCount(op, from) ==
  Len(SelectSeq(requests, LAMBDA r : r.op = op /\ r.from = from))

Outcomes == {"ok", "status", "network", "timeout", "malformed", "payload"}

\* C21: within one invocation the client sends at most one transcription
\* request and at most one polish request, and the relay forwards each at
\* most once; a call that has settled has sent nothing more, and its single
\* attempt ended as completed, failed or timed out.
C21_NoRetries ==
  /\ [](/\ RequestCount("transcribe", "client") <= 1
         /\ RequestCount("polish", "client") <= 1
         /\ RequestCount("transcribe", "relay") <= 1
         /\ RequestCount("polish", "relay") <= 1
         /\ \A i \in 1..Len(requests) : requests[i].inv = invocations)
  /\ [](lib.pc = "settled" => lib.env \in Outcomes)
  /\ [][ lib.pc = "settled" /\ lib'.op = lib.op => requests' = requests ]_vars
  /\ [][ (flow \in {"Failed", "Complete"} /\ flow' = flow)
           => (requests' = requests) ]_vars

C21_Witness ==
  /\ flow = "Failed"
  /\ alert = [title |-> "Error", message |-> MsgTimedOut]
  /\ RequestCount("transcribe", "client") = 1
  /\ Len(requests) = 1

\* The stop flow is between the stop tap and the end of transcription and
\* polish.
BeingProcessed == stopPc \in {"unload", "getKey", "transcribe", "polish"}

\* C22: while a stopped recording is still being processed (from the stop
\* tap until its transcription and polish have finished or failed), no new
\* recording begins.
C22_NoRecordingWhileProcessing ==
  [][ BeingProcessed => ~(~isRecording /\ isRecording') ]_vars

\* C26: whenever isRecording is true recordingRef holds a recording, and
\* the stop flow reads and clears recordingRef only while it still holds the
\* recording that this flow stopped.
C26_RecordingRefFollowsRecording ==
  /\ [](isRecording => recordingRef # 0)
  /\ [][ stopPc = "unload" /\ stopPc' # "unload" /\ recordingRef' # recordingRef
           => recordingRef = stopLocals.rec ]_vars

\* C27: while transcribeNative is sending, waiting for the status or reading
\* the success or error body, its abort timer is armed (pending, or fired and
\* aborting the operation); it is never cleared before the body is read.
C27_TimerArmedUntilBodyRead ==
  lib.op = "transcribe" /\ lib.platform = "native" /\ lib.pc \in {"fetch", "body"}
    => /\ lib.timer \in 1..Len(timers)
       /\ timers[lib.timer].state \in {"pending", "fired"}

\* The stop flow has a transcription and has not yet returned.
TranscriptionSucceeded == stopPc \in {"polish", "clipboard", "save"}

\* C29: a stop flow whose transcription succeeded returns only after exactly
\* one new history entry with its raw and final text has been stored,
\* whatever polishing and the clipboard copy did (a failure of the storage
\* itself excepted).
C29_SuccessfulTranscriptionIsSaved ==
  [][ /\ TranscriptionSucceeded
      /\ stopPc' = "idle"
      /\ alert'.message # <<"storage failure">>
      => /\ Len(history') = Len(history) + 1
         /\ SubSeq(history', 2, Len(history')) = history
         /\ history'[1].rawText = stopLocals.raw
         /\ history'[1].polishedText = stopLocals.polished ]_vars

\* The steps of a completing stop flow, given what counts as a usable
\* content of the polish response and the refined text it stands for: raw is
\* the text transcribeAudio resolved with, polished is the refined text of a
\* successful polish with usable content and otherwise raw, the clipboard
\* receives polished, and the history entry carries raw and polished.
FinalTextSteps(usable(_), refined(_)) ==
  /\ stopPc = "transcribe" /\ stopPc' = "polish"
       => stopLocals'.raw = lib.value
  /\ stopPc = "polish" /\ stopPc' = "clipboard"
       => /\ stopLocals'.raw = stopLocals.raw
          /\ stopLocals'.polished =
               IF lib.env = "ok" /\ lib.body # <<>> /\ usable(lib.body[1])
               THEN refined(lib.body[1])
               ELSE stopLocals.raw
  /\ stopPc = "clipboard" /\ stopPc' = "save"
       => clipboard' = stopLocals.polished /\ stopLocals' = stopLocals
  /\ stopPc = "save" /\ history' # history
       => /\ history'[1].rawText = stopLocals.raw
          /\ history'[1].polishedText = stopLocals.polished

\* C24 as claimed: the text copied to the clipboard and saved as
\* polishedText is the content of the polish response when the polish call
\* succeeded with non-empty content, and otherwise exactly the raw
\* transcription; the history entry carries the raw transcription as rawText.
C24_FinalTextRefinedOrRaw ==
  [][ FinalTextSteps(LAMBDA c : c # <<>>, LAMBDA c : c) ]_vars

\* C24 amended: the text copied to the clipboard and saved as polishedText
\* is the trimmed content of the polish response when the polish call
\* succeeded with content that is not blank, and otherwise exactly the raw
\* transcription; the history entry carries the raw transcription as rawText.
C24_FinalTextTrimmedRefinedOrRaw ==
  [][ FinalTextSteps(LAMBDA c : ~IsBlank(c), LAMBDA c : Trim(c)) ]_vars

C24_Witness ==
  /\ stopPc = "idle"
  /\ flow = "Complete"
  /\ Len(history) = 1
  /\ history[1].rawText = <<"a">>
  /\ history[1].polishedText = <<"a", "a">>
  /\ clipboard = <<"a", "a">>

\* C25: once stopRecording has set isProcessing to true it eventually sets it
\* back to false, on native and on web.
C25_ProcessingEventuallyEnds == isProcessing ~> ~isProcessing

\* The message of a failed transcription whose upstream answered with the
\* given status and body, on the direct path and through the relay.
DirectMessage(status, body) ==
  parseErrorMessage(status, NativeErrMsg(status, TRUE, body))

RelayedMessage(status, body) ==
  parseErrorMessage(status,
    WebErrMsg(RelayResp(status, TRUE, <<>>, <<body.raw>>)))

\* C28: a transcription that failed with an upstream status and body is
\* rejected with the same message on both paths: the direct path yields the
\* message the relay path yields for that status and body, and the relay
\* path yields the message of the direct path.
C28_SameMessageOnBothPaths ==
  /\ [](lib.op = "transcribe" /\ lib.platform = "native" /\ lib.pc = "settled"
          /\ lib.env = "status" /\ lib.body # <<>>
          => lib.error.message = RelayedMessage(lib.status, lib.body[1]))
  /\ [][ lib.op = "transcribe" /\ lib.platform = "web" /\ lib.pc = "fetch"
          /\ lib'.pc = "settled" /\ relay.up # <<>>
          /\ ~ResponseOk(relay.up[1].status)
          => lib'.error.message =
               DirectMessage(relay.up[1].status, relay.up[1].body) ]_vars

Min(a, b) == IF a <= b THEN a ELSE b

\* C23: the stored history never holds more than 100 entries; a saveToHistory
\* that completes leaves its entry first, followed by the entries it found in
\* their order, without the last of them when that would exceed the limit.
C23_HistoryAtMostLimit ==
  /\ [](Len(history) <= HISTORY_LIMIT)
  /\ [][ \A i \in 1..Len(harness.hist) :
           /\ harness.hist[i].op = "save"
           /\ harness.hist[i].pc = "write"
           /\ harness'.hist[i].pc = "done"
           => /\ history'[1].id = harness.hist[i].arg
              /\ Len(history') = Min(Len(harness.hist[i].read) + 1, HISTORY_LIMIT)
              /\ Tail(history') =
                   SubSeq(harness.hist[i].read, 1, Len(history') - 1) ]_vars

C23_Witness ==
  /\ Len(harness.hist) = 1
  /\ harness.hist[1].op = "save"
  /\ harness.hist[1].pc = "done"
  /\ Len(harness.hist[1].read) = HISTORY_LIMIT
  /\ Len(history) = HISTORY_LIMIT
  /\ history[1].id = HISTORY_LIMIT + 1
  /\ history[HISTORY_LIMIT].id = 2

StoredIds == {history[i].id : i \in 1..Len(history)}

\* C30: once concurrent saveToHistory and deleteFromHistory calls have all
\* completed, the stored history contains every entry that was saved and not
\* deleted, and none of the deleted ones.
C30_NoLostHistoryUpdate ==
  LET calls == harness.hist
  IN  /\ calls # <<>>
      /\ \A i \in 1..Len(calls) : calls[i].pc = "done" /\ calls[i].op # "clear"
      => \A i \in 1..Len(calls) :
           /\ calls[i].op = "delete" => calls[i].arg \notin StoredIds
           /\ calls[i].op = "save"
                /\ (\A j \in 1..Len(calls) :
                      calls[j].op = "delete" => calls[j].arg # calls[i].arg)
                => calls[i].arg \in StoredIds

====
